---- MODULE Spec2Model ----
(***************************************************************************)
(* top-analyzer: memory_utils.py, compare_top_mem.py, track_pid_mem.py and *)
(* plot_pid_mem.py.                                                        *)
(*                                                                         *)
(* Text is modelled as sequences of one-character strings, so that         *)
(* str.replace, str.isdigit, float(), int() and datetime.strptime are      *)
(* computed character by character.  A memory value (a Python float) is    *)
(* the exact decimal it denotes, kept as a fraction [n, d] in lowest terms. *)
(***************************************************************************)
EXTENDS Integers, Sequences, FiniteSets, TLC

\* ------------------------------------------------------------------ bounds
\* most lines read from one snapshot file
MaxRows == 3
\* most entries of the snapshots directory
MaxFiles == 3

\* ------------------------------------------------------------- text helpers
\* a raised exception is a record with the field err; None is Python's None
None == [none |-> TRUE]
ValueError == [err |-> "ValueError"]
TypeError == [err |-> "TypeError"]
IsErr(x) == "err" \in DOMAIN x

Digits == {"0", "1", "2", "3", "4", "5", "6", "7", "8", "9"}

DigitVal(c) ==
  CASE c = "0" -> 0 [] c = "1" -> 1 [] c = "2" -> 2 [] c = "3" -> 3
    [] c = "4" -> 4 [] c = "5" -> 5 [] c = "6" -> 6 [] c = "7" -> 7
    [] c = "8" -> 8 [] c = "9" -> 9

\* str.isdigit(): non-empty and every character a digit
isdigit(s) == Len(s) > 0 /\ \A i \in 1..Len(s) : s[i] \in Digits

\* int(s) of a string of digits
RECURSIVE int(_)
int(s) == IF s = <<>> THEN 0
          ELSE 10 * int(SubSeq(s, 1, Len(s) - 1)) + DigitVal(s[Len(s)])

startswith(s, p) == Len(s) >= Len(p) /\ SubSeq(s, 1, Len(p)) = p

endswith(s, p) == Len(s) >= Len(p) /\ SubSeq(s, Len(s) - Len(p) + 1, Len(s)) = p

\* str.replace(old, ''): every non-overlapping occurrence, left to right
RECURSIVE replace(_, _)
replace(s, old) ==
  IF s = <<>> THEN <<>>
  ELSE IF startswith(s, old) THEN replace(SubSeq(s, Len(old) + 1, Len(s)), old)
  ELSE <<Head(s)>> \o replace(Tail(s), old)

\* str.lower() on the letters that occur in memory fields
LowerChar(c) ==
  CASE c = "K" -> "k" [] c = "M" -> "m" [] c = "G" -> "g" [] OTHER -> c

lower(s) == [i \in 1..Len(s) |-> LowerChar(s[i])]

\* str.strip(): leading and trailing blanks removed
RECURSIVE lstrip(_)
lstrip(s) == IF s # <<>> /\ Head(s) = " " THEN lstrip(Tail(s)) ELSE s

RECURSIVE rstrip(_)
rstrip(s) == IF s # <<>> /\ s[Len(s)] = " " THEN rstrip(SubSeq(s, 1, Len(s) - 1)) ELSE s

strip(s) == rstrip(lstrip(s))

RECURSIVE Pow10(_)
Pow10(k) == IF k = 0 THEN 1 ELSE 10 * Pow10(k - 1)

\* ------------------------------------------------------ exact decimal values
RECURSIVE GCD(_, _)
GCD(a, b) == IF b = 0 THEN a ELSE GCD(b, a % b)

\* the fraction n / d (d > 0) in lowest terms
Rat(n, d) ==
  LET g == GCD(IF n < 0 THEN -n ELSE n, d)
  IN [n |-> n \div g, d |-> d \div g]

RatEq(a, b) == a.n * b.d = b.n * a.d
RatLt(a, b) == a.n * b.d < b.n * a.d
RatLe(a, b) == a.n * b.d <= b.n * a.d
RatSub(a, b) == Rat(a.n * b.d - b.n * a.d, a.d * b.d)
RatAbs(a) == Rat(IF a.n < 0 THEN -a.n ELSE a.n, a.d)
RatMulInt(a, k) == Rat(a.n * k, a.d)
Zero == Rat(0, 1)
\* a / b for b > 0
RatDiv(a, b) == Rat(a.n * b.d, a.d * b.n)

\* ------------------------------------------------------------ memory_utils
\* float(s) of Python on the characters that occur here: blanks around the
\* literal are ignored, an optional '-' sign, digits with at most one '.',
\* at least one digit; anything else raises ValueError.
DotCount(s) == Cardinality({i \in 1..Len(s) : s[i] = "."})

DotPos(s) == IF DotCount(s) = 0 THEN Len(s) ELSE CHOOSE i \in 1..Len(s) : s[i] = "."

Unsigned(s) ==
  /\ \A i \in 1..Len(s) : s[i] \in Digits \cup {"."}
  /\ DotCount(s) <= 1
  /\ Len(s) - DotCount(s) >= 1

FloatBody(s) == IF s # <<>> /\ Head(s) = "-" THEN Tail(s) ELSE s

float(str) ==
  LET s == strip(str)
      body == FloatBody(s)
      mant == int(replace(body, <<".">>))
      frac == Len(body) - DotPos(body)
  IN IF ~Unsigned(body) THEN ValueError
     ELSE Rat(IF body # s THEN -mant ELSE mant, Pow10(frac))

parse_memory_value(mem_str0) ==
  LET mem_str == lower(strip(mem_str0))
      num == SubSeq(mem_str, 1, Len(mem_str) - 1)
  IN IF isdigit(replace(mem_str, <<".">>)) THEN float(mem_str)
     ELSE IF endswith(mem_str, <<"k">>) THEN float(num)
     ELSE IF endswith(mem_str, <<"m">>)
       THEN IF IsErr(float(num)) THEN ValueError ELSE RatMulInt(float(num), 1024)
     ELSE IF endswith(mem_str, <<"g">>)
       THEN IF IsErr(float(num)) THEN ValueError
            ELSE RatMulInt(float(num), 1024 * 1024)
     ELSE float(mem_str)

\* ------------------------------------------------------------- snapshot text
\* A line of a snapshot file: whether it begins with white space, and the
\* fields line.split() yields.
Line(indent, parts) == [indent |-> indent, parts |-> parts]

\* line.startswith(prefix), for a prefix without white space
LineStartsWith(line, prefix) ==
  ~line.indent /\ line.parts # <<>> /\ startswith(line.parts[1], prefix)

\* ' '.join(words)
RECURSIVE join(_)
join(words) ==
  IF words = <<>> THEN <<>>
  ELSE IF Len(words) = 1 THEN words[1]
  ELSE words[1] \o <<" ">> \o join(Tail(words))

\* the line filter shared by every parser of the repository: a blank line, a
\* banner line, a line of fewer than 12 fields or one whose first field is
\* not all digits is passed over
Skipped(line) ==
  \/ line.parts = <<>>
  \/ LineStartsWith(line, <<"t", "o", "p">>)
  \/ LineStartsWith(line, <<"T", "a", "s", "k", "s">>)
  \/ LineStartsWith(line, <<"%", "C", "p", "u">>)
  \/ LineStartsWith(line, <<"M", "i", "B">>)
  \/ Len(line.parts) < 12
  \/ ~isdigit(line.parts[1])

\* a Python dict: the keys in insertion order, and the value of each key
EmptyDict == [keys |-> <<>>, val |-> <<>>]

Keys(dict) == {dict.keys[i] : i \in 1..Len(dict.keys)}

DictSet(dict, k, v) ==
  IF k \in Keys(dict)
  THEN [dict EXCEPT !.val = [x \in Keys(dict) |-> IF x = k THEN v ELSE dict.val[x]]]
  ELSE [keys |-> Append(dict.keys, k),
        val |-> [x \in Keys(dict) \cup {k} |-> IF x = k THEN v ELSE dict.val[x]]]

\* one pass of the loop of parse_top_file over a line: the dict afterwards,
\* or the ValueError of the normalizer
parse_top_file_line(mem_dict, line) ==
  IF Skipped(line) THEN mem_dict
  ELSE LET pid == int(line.parts[1])
           mem == parse_memory_value(line.parts[6])
           cmd == join(SubSeq(line.parts, 12, Len(line.parts)))
       IN IF IsErr(mem) THEN ValueError
          ELSE DictSet(mem_dict, pid, [mem |-> mem, cmd |-> cmd])

\* the same pass in get_processes, the parser nested in find_new_processes
get_processes_line(processes, line) ==
  IF Skipped(line) THEN processes
  ELSE LET pid == int(line.parts[1])
           mem == parse_memory_value(line.parts[6])
           cmd == join(SubSeq(line.parts, 12, Len(line.parts)))
       IN IF IsErr(mem) THEN ValueError
          ELSE DictSet(processes, pid, [mem |-> mem, cmd |-> cmd])

\* ---------------------------------------------------------------- diff engine
\* float('inf')
Inf == [inf |-> 1]
NegInf == [inf |-> -1]

\* InsertChange keyed by the signed change, abs() left out
RECURSIVE InsertChange_Signed(_, _)
InsertChange_Signed(acc, e) ==
  IF acc = <<>> THEN <<e>>
  ELSE IF RatLt(Head(acc).change, e.change) THEN <<e>> \o acc
  ELSE <<Head(acc)>> \o InsertChange_Signed(Tail(acc), e)

\* sorted(changes, key=lambda x: abs(x['change']), reverse=True): stable
RECURSIVE InsertChange(_, _)
InsertChange(acc, e) ==
  IF acc = <<>> THEN <<e>>
  ELSE IF RatLt(RatAbs(Head(acc).change), RatAbs(e.change)) THEN <<e>> \o acc
  ELSE <<Head(acc)>> \o InsertChange(Tail(acc), e)

RECURSIVE SortChanges(_)
SortChanges(changes) ==
  IF changes = <<>> THEN <<>>
  ELSE InsertChange(SortChanges(SubSeq(changes, 1, Len(changes) - 1)),
                    changes[Len(changes)])

\* ChangeEntry with the command read from the later snapshot
ChangeEntry_LaterCmd(pid, mem_dict1, mem_dict2) ==
  LET mem1 == mem_dict1.val[pid].mem
      mem2 == mem_dict2.val[pid].mem
      change == RatSub(mem2, mem1)
  IN [pid |-> pid,
      cmd |-> mem_dict2.val[pid].cmd,
      mem1 |-> mem1,
      mem2 |-> mem2,
      change |-> change,
      change_rate |-> IF RatLt(Zero, mem1)
                      THEN RatMulInt(RatDiv(change, mem1), 100)
                      ELSE [inf |-> 1]]

\* the entry compare_memory appends for a pid of both dicts
ChangeEntry(pid, mem_dict1, mem_dict2) ==
  LET mem1 == mem_dict1.val[pid].mem
      mem2 == mem_dict2.val[pid].mem
      change == RatSub(mem2, mem1)
  IN [pid |-> pid,
      cmd |-> mem_dict1.val[pid].cmd,
      mem1 |-> mem1,
      mem2 |-> mem2,
      change |-> change,
      change_rate |-> IF RatLt(Zero, mem1)
                      THEN RatMulInt(RatDiv(change, mem1), 100)
                      ELSE Inf]

\* the loop of compare_memory over the keys of mem_dict1, in insertion order
RECURSIVE Changes(_, _, _)
Changes(keys, mem_dict1, mem_dict2) ==
  IF keys = <<>> THEN <<>>
  ELSE LET pid == Head(keys)
           rest == Changes(Tail(keys), mem_dict1, mem_dict2)
       IN IF pid \in Keys(mem_dict2)
             /\ ~RatEq(mem_dict1.val[pid].mem, mem_dict2.val[pid].mem)
          THEN <<ChangeEntry(pid, mem_dict1, mem_dict2)>> \o rest
          ELSE rest

compare_memory(mem_dict1, mem_dict2) ==
  SortChanges(Changes(mem_dict1.keys, mem_dict1, mem_dict2))

\* round(x, 2) of a non-negative value, halves to the even hundredth
round2(x) ==
  LET q == (x.n * 100) \div x.d
      r == (x.n * 100) % x.d
  IN Rat(IF 2 * r > x.d \/ (2 * r = x.d /\ q % 2 = 1) THEN q + 1 ELSE q, 100)

\* new_procs.sort(key=lambda x: x['mem_kb'], reverse=True): stable
RECURSIVE InsertNewProc(_, _)
InsertNewProc(acc, e) ==
  IF acc = <<>> THEN <<e>>
  ELSE IF RatLt(Head(acc).mem_kb, e.mem_kb) THEN <<e>> \o acc
  ELSE <<Head(acc)>> \o InsertNewProc(Tail(acc), e)

RECURSIVE SortNewProcs(_)
SortNewProcs(new_procs) ==
  IF new_procs = <<>> THEN <<>>
  ELSE InsertNewProc(SortNewProcs(SubSeq(new_procs, 1, Len(new_procs) - 1)),
                     new_procs[Len(new_procs)])

\* NewProcs without the test info['mem'] > 0
RECURSIVE NewProcs_AnyMemory(_, _, _)
NewProcs_AnyMemory(keys, procs1, procs2) ==
  IF keys = <<>> THEN <<>>
  ELSE LET pid == Head(keys)
           info == procs2.val[pid]
           rest == NewProcs_AnyMemory(Tail(keys), procs1, procs2)
       IN IF pid \notin Keys(procs1)
          THEN <<[pid |-> pid,
                  mem_kb |-> info.mem,
                  mem_mb |-> round2(RatDiv(info.mem, Rat(1024, 1))),
                  mem_gb |-> round2(RatDiv(info.mem, Rat(1024 * 1024, 1))),
                  cmd |-> info.cmd]>> \o rest
          ELSE rest

\* the loop of find_new_processes over procs2.items(), in insertion order
RECURSIVE NewProcs(_, _, _)
NewProcs(keys, procs1, procs2) ==
  IF keys = <<>> THEN <<>>
  ELSE LET pid == Head(keys)
           info == procs2.val[pid]
           rest == NewProcs(Tail(keys), procs1, procs2)
       IN IF pid \notin Keys(procs1) /\ RatLt(Zero, info.mem)
          THEN <<[pid |-> pid,
                  mem_kb |-> info.mem,
                  mem_mb |-> round2(RatDiv(info.mem, Rat(1024, 1))),
                  mem_gb |-> round2(RatDiv(info.mem, Rat(1024 * 1024, 1))),
                  cmd |-> info.cmd]>> \o rest
          ELSE rest

find_new_processes(procs1, procs2) ==
  SortNewProcs(NewProcs(procs2.keys, procs1, procs2))

\* ------------------------------------------------------- timestamp resolver
\* the character at position i, or "" past the end
Ch(s, i) == IF i >= 1 /\ i <= Len(s) THEN s[i] ELSE ""

IsDigitAt(s, i) == Ch(s, i) \in Digits

\* Path(filename).name: the last component, a trailing '/' not counted
RECURSIVE AfterLastSlash(_)
AfterLastSlash(s) ==
  IF \E i \in 1..Len(s) : s[i] = "/" THEN AfterLastSlash(Tail(s)) ELSE s

RECURSIVE PathName(_)
PathName(s) ==
  IF s # <<>> /\ s[Len(s)] = "/" THEN PathName(SubSeq(s, 1, Len(s) - 1))
  ELSE AfterLastSlash(s)

\* The regular expression datetime.strptime builds from '%Y%m%d_%H%M':
\*   (\d\d\d\d)(1[0-2]|0[1-9]|[1-9])(3[0-1]|[1-2]\d|0[1-9]|[1-9]| [1-9])_
\*   (2[0-3]|[0-1]\d|\d)([0-5]\d|\d)
\* Each operator gives the length alternative k of a group matches at
\* position p, or 0.
MonthAlt(k, s, p) ==
  CASE k = 1 -> IF Ch(s, p) = "1" /\ Ch(s, p + 1) \in {"0", "1", "2"} THEN 2 ELSE 0
    [] k = 2 -> IF Ch(s, p) = "0" /\ Ch(s, p + 1) \in Digits \ {"0"} THEN 2 ELSE 0
    [] k = 3 -> IF Ch(s, p) \in Digits \ {"0"} THEN 1 ELSE 0

DayAlt(k, s, p) ==
  CASE k = 1 -> IF Ch(s, p) = "3" /\ Ch(s, p + 1) \in {"0", "1"} THEN 2 ELSE 0
    [] k = 2 -> IF Ch(s, p) \in {"1", "2"} /\ IsDigitAt(s, p + 1) THEN 2 ELSE 0
    [] k = 3 -> IF Ch(s, p) = "0" /\ Ch(s, p + 1) \in Digits \ {"0"} THEN 2 ELSE 0
    [] k = 4 -> IF Ch(s, p) \in Digits \ {"0"} THEN 1 ELSE 0
    [] k = 5 -> IF Ch(s, p) = " " /\ Ch(s, p + 1) \in Digits \ {"0"} THEN 2 ELSE 0

HourAlt(k, s, p) ==
  CASE k = 1 -> IF Ch(s, p) = "2" /\ Ch(s, p + 1) \in {"0", "1", "2", "3"} THEN 2 ELSE 0
    [] k = 2 -> IF Ch(s, p) \in {"0", "1"} /\ IsDigitAt(s, p + 1) THEN 2 ELSE 0
    [] k = 3 -> IF IsDigitAt(s, p) THEN 1 ELSE 0

MinuteAlt(k, s, p) ==
  CASE k = 1 -> IF Ch(s, p) \in {"0", "1", "2", "3", "4", "5"} /\ IsDigitAt(s, p + 1)
                THEN 2 ELSE 0
    [] k = 2 -> IF IsDigitAt(s, p) THEN 1 ELSE 0

\* where the groups lie when the alternatives c = <<month, day, hour, minute>>
\* are taken: the year is s[1..4], the month starts at 5
DayPos(s, c) == 5 + MonthAlt(c[1], s, 5)
SepPos(s, c) == DayPos(s, c) + DayAlt(c[2], s, DayPos(s, c))
HourPos(s, c) == SepPos(s, c) + 1
MinutePos(s, c) == HourPos(s, c) + HourAlt(c[3], s, HourPos(s, c))
EndPos(s, c) == MinutePos(s, c) + MinuteAlt(c[4], s, MinutePos(s, c))

\* the choices of alternatives under which the whole expression matches a
\* prefix of s
Matches(s) ==
  IF \E i \in 1..4 : ~IsDigitAt(s, i) THEN {}
  ELSE
  {c \in (1..3) \X (1..5) \X (1..3) \X (1..2) :
     /\ MonthAlt(c[1], s, 5) > 0
     /\ DayAlt(c[2], s, DayPos(s, c)) > 0
     /\ Ch(s, SepPos(s, c)) = "_"
     /\ HourAlt(c[3], s, HourPos(s, c)) > 0
     /\ MinuteAlt(c[4], s, MinutePos(s, c)) > 0}

LexLe(a, b) ==
  \E k \in 1..(Len(a) + 1) : /\ \A i \in 1..(k - 1) : a[i] = b[i]
                             /\ (k = Len(a) + 1 \/ a[k] < b[k])

\* the match a backtracking matcher finds among the matches m: the first in
\* the order of the alternatives
FirstMatch(m) == CHOOSE c \in m : \A o \in m : LexLe(c, o)

\* a value of the day column after a leading blank
DayInt(t) == IF t # <<>> /\ Head(t) = " " THEN int(Tail(t)) ELSE int(t)

IsLeap(y) == y % 4 = 0 /\ (y % 100 # 0 \/ y % 400 = 0)

DaysInMonth(y, m) ==
  IF m = 2 THEN (IF IsLeap(y) THEN 29 ELSE 28)
  ELSE IF m \in {4, 6, 9, 11} THEN 30 ELSE 31

\* datetime.strptime(s, '%Y%m%d_%H%M'): the datetime, or ValueError when the
\* expression does not match, text is left over, or the date does not exist
StrptimeFields(s, c) ==
  [year |-> int(SubSeq(s, 1, 4)),
   month |-> int(SubSeq(s, 5, DayPos(s, c) - 1)),
   day |-> DayInt(SubSeq(s, DayPos(s, c), SepPos(s, c) - 1)),
   hour |-> int(SubSeq(s, HourPos(s, c), MinutePos(s, c) - 1)),
   minute |-> int(SubSeq(s, MinutePos(s, c), EndPos(s, c) - 1))]

strptime(s) ==
  LET m == Matches(s)
  IN IF m = {} THEN ValueError
     ELSE LET c == FirstMatch(m)
              t == StrptimeFields(s, c)
          IN IF EndPos(s, c) - 1 # Len(s) THEN ValueError
             ELSE IF t.year < 1 \/ t.day > DaysInMonth(t.year, t.month) THEN ValueError
             ELSE t

TopPrefix == <<"t", "o", "p", "_">>
TxtSuffix == <<".", "t", "x", "t">>

parse_timestamp_from_filename(filename) ==
  LET basename == PathName(filename)
      date_time_str == replace(replace(basename, TopPrefix), TxtSuffix)
      parsed == strptime(date_time_str)
  IN IF IsErr(parsed) THEN None ELSE parsed

IsNone(x) == "none" \in DOMAIN x

\* the resolver as track_pid_mem writes it, with os.path.basename
track_parse_timestamp_from_filename(filename) ==
  LET basename == AfterLastSlash(filename)
      date_time_str == replace(replace(basename, TopPrefix), TxtSuffix)
      parsed == strptime(date_time_str)
  IN IF IsErr(parsed) THEN None ELSE parsed

\* datetime < datetime
TimeTuple(t) == <<t.year, t.month, t.day, t.hour, t.minute>>

TimeLt(a, b) == TimeTuple(a) # TimeTuple(b) /\ LexLe(TimeTuple(a), TimeTuple(b))

\* ensure_time_order swapping on time1 >= time2
ensure_time_order_SwapOnEqual(file1, file2) ==
  LET time1 == parse_timestamp_from_filename(file1)
      time2 == parse_timestamp_from_filename(file2)
  IN IF IsNone(time1) \/ IsNone(time2) THEN [err |-> "ValueError"]
     ELSE IF ~TimeLt(time1, time2)
          THEN [first |-> file2, second |-> file1, warned |-> TRUE]
          ELSE [first |-> file1, second |-> file2, warned |-> FALSE]

\* the tuple or the ValueError ensure_time_order ends with, and whether it
\* printed the warning of a swap
ensure_time_order(file1, file2) ==
  LET time1 == parse_timestamp_from_filename(file1)
      time2 == parse_timestamp_from_filename(file2)
  IN IF IsNone(time1) \/ IsNone(time2) THEN ValueError
     ELSE IF TimeLt(time2, time1)
          THEN [first |-> file2, second |-> file1, warned |-> TRUE]
          ELSE [first |-> file1, second |-> file2, warned |-> FALSE]

\* ----------------------------------------------------- time series collector
\* the line filter as track_pid_mem.parse_top_file writes it
TrackSkipped(line) ==
  \/ line.parts = <<>>
  \/ LineStartsWith(line, <<"t", "o", "p">>)
  \/ LineStartsWith(line, <<"T", "a", "s", "k", "s">>)
  \/ LineStartsWith(line, <<"%", "C", "p", "u">>)
  \/ LineStartsWith(line, <<"M", "i", "B">>)
  \/ Len(line.parts) < 12
  \/ ~isdigit(line.parts[1])

\* the loop of track_pid_mem.parse_top_file goes on to the next line
Continue == [continue |-> TRUE]

\* one pass of that loop over a line: Continue, the record returned for
\* target_pid, or the ValueError of the normalizer
track_parse_top_file_line(line, target_pid) ==
  IF TrackSkipped(line) THEN Continue
  ELSE LET pid == int(line.parts[1])
           mem == parse_memory_value(line.parts[6])
       IN IF pid # target_pid THEN Continue
          ELSE IF IsErr(mem) THEN ValueError
          ELSE [pid |-> pid, mem |-> mem,
                cmd |-> join(SubSeq(line.parts, 12, Len(line.parts)))]

\* two decimal digits, zero padded
TwoDigits(n) == <<CHOOSE c \in Digits : DigitVal(c) = n \div 10,
                  CHOOSE c \in Digits : DigitVal(c) = n % 10>>

\* the decimal digits of n
RECURSIVE Decimal(_)
Decimal(n) ==
  IF n < 10 THEN <<CHOOSE c \in Digits : DigitVal(c) = n>>
  ELSE Decimal(n \div 10) \o <<CHOOSE c \in Digits : DigitVal(c) = n % 10>>

\* timestamp.strftime('%Y-%m-%d %H:%M')
strftime(t) ==
  Decimal(t.year) \o <<"-">> \o TwoDigits(t.month) \o <<"-">> \o TwoDigits(t.day)
    \o <<" ">> \o TwoDigits(t.hour) \o <<":">> \o TwoDigits(t.minute)

\* the point collect_memory_data appends for a record found in a snapshot
Point(timestamp, tracked) ==
  [timestamp |-> strftime(timestamp),
   pid |-> tracked.pid,
   mem |-> tracked.mem,
   cmd |-> tracked.cmd]

\* ------------------------------------------------------------------- inputs
\* the field every column but PID, RES and COMMAND holds
Filler == <<"0">>

\* a row of 11 columns followed by the words of the command
Row(indent, pid, res, words) ==
  Line(indent, <<pid, Filler, Filler, Filler, Filler, res,
                 Filler, Filler, Filler, Filler, Filler>> \o words)

CmdA == <<<<"a">>>>
CmdBC == <<<<"b">>, <<"c">>>>

\* the lines a snapshot file is read from: rows of three PIDs (PID 1 also
\* written 01) with the memory fields 0, 5, 5.0, -5, 1M, 1k and the unparsable
\* x, and the lines every parser passes over (blank, banner, 11 columns, a
\* PID that is not all digits)
DataRows ==
  {Row(FALSE, <<"1">>, res, CmdA) : res \in {<<"0">>, <<"5">>, <<"1", "M">>, <<"x">>}}
  \cup {Row(FALSE, <<"0", "1">>, <<"5", ".", "0">>, CmdBC)}
  \cup {Row(TRUE, <<"2">>, res, CmdA) : res \in {<<"0">>, <<"-", "5">>, <<"x">>}}
  \cup {Row(TRUE, <<"3">>, res, CmdBC) : res \in {<<"5">>, <<"1", "k">>}}

OtherLines ==
  { Line(FALSE, <<>>),
    Row(FALSE, <<"t", "o", "p">>, <<"5">>, CmdA),
    Row(TRUE, <<"1">>, <<"x">>, <<>>),
    Row(TRUE, <<"1", "x">>, <<"x">>, CmdA) }

Lines == DataRows \cup OtherLines

\* names of snapshots
Date0101 == <<"2", "0", "2", "4", "0", "1", "0", "1">>
Date0102 == <<"2", "0", "2", "4", "0", "1", "0", "2">>
Date011 == <<"2", "0", "2", "4", "0", "1", "1">>
Date0230 == <<"2", "0", "2", "4", "0", "2", "3", "0">>
Time0900 == <<"0", "9", "0", "0">>
Time0905 == <<"0", "9", "0", "5">>
Time90 == <<"9", "0">>
Notes == <<"n", "o", "t", "e", "s">>

Name(dir, prefix, date, time, suffix) == dir \o prefix \o date \o <<"_">> \o time \o suffix

\* the identifiers handed to ensure_time_order: with and without a
\* directory, the prefix and the suffix absent, once or twice, dates and
\* times of full and of short width, a date that does not exist, and two
\* names without date and time
OrderNames ==
  {Name(dir, prefix, date, time, suffix) :
     dir \in {<<>>, <<"d", "/">>},
     prefix \in {<<>>, TopPrefix, TopPrefix \o TopPrefix},
     date \in {Date0102, Date011, Date0230},
     time \in {Time0905, Time90},
     suffix \in {<<>>, TxtSuffix, TxtSuffix \o TxtSuffix}}
  \cup {Notes \o TxtSuffix, TopPrefix \o Notes \o TxtSuffix}

\* the entries a snapshots directory is made of: three well-formed names, a
\* short-width name of the time of the first, a name of the pattern
\* top_*.txt without date and time, and a name outside that pattern
DirNames ==
  { Name(<<>>, TopPrefix, Date0101, Time0900, TxtSuffix),
    Name(<<>>, TopPrefix, Date0101, Time0905, TxtSuffix),
    Name(<<>>, TopPrefix, Date0102, Time0900, TxtSuffix),
    Name(<<>>, TopPrefix, Date011, Time0900, TxtSuffix),
    TopPrefix \o Notes \o TxtSuffix,
    Notes \o TxtSuffix }

\* what each entry of a directory resolves to
SnapshotTime == [name \in DirNames |-> track_parse_timestamp_from_filename(name)]

\* Path(snapshots_dir).glob('top_*.txt') on the entries of the directory
GlobMatch(name) ==
  Len(name) >= 8 /\ startswith(name, TopPrefix) /\ endswith(name, TxtSuffix)

glob(entries) == SelectSeq(entries, GlobMatch)

\* sorted(files, key=parse_timestamp_from_filename): a stable ascending sort;
\* with two or more files a key of None meets '<', which raises TypeError
RECURSIVE InsertSnapshot(_, _)
InsertSnapshot(acc, f) ==
  IF acc = <<>> THEN <<f>>
  ELSE IF TimeLt(SnapshotTime[f],
                 SnapshotTime[Head(acc)])
  THEN <<f>> \o acc
  ELSE <<Head(acc)>> \o InsertSnapshot(Tail(acc), f)

RECURSIVE SortSnapshots(_)
SortSnapshots(files) ==
  IF files = <<>> THEN <<>>
  ELSE InsertSnapshot(SortSnapshots(SubSeq(files, 1, Len(files) - 1)),
                      files[Len(files)])

\* list.sort compares every key of a list of two or more
SortRaisesTypeError(files) ==
  Len(files) >= 2
  /\ \E i \in 1..Len(files) : IsNone(SnapshotTime[files[i]])

\* the files as glob lists them, the sort left out
sorted_snapshot_files_Unsorted(files) == files

sorted_snapshot_files(files) == IF Len(files) < 2 THEN files ELSE SortSnapshots(files)

\* the directories of at most MaxFiles entries, in the order the file system
\* lists them
RECURSIVE Listings(_)
Listings(n) ==
  IF n = 0 THEN {<<>>}
  ELSE Listings(n - 1) \cup
       {Append(l, name) : l \in {x \in Listings(n - 1) : Len(x) = n - 1},
                          name \in DirNames}

Directories ==
  {l \in Listings(MaxFiles) : \A i, j \in 1..Len(l) : i # j => l[i] # l[j]}

\* the lines the snapshots of a directory are read from
TrackLines ==
  { Row(FALSE, <<"1">>, <<"5">>, CmdA),
    Row(FALSE, <<"1">>, <<"x">>, CmdA),
    Row(TRUE, <<"2">>, <<"1", "M">>, CmdBC),
    Row(TRUE, <<"2">>, <<"x">>, CmdA),
    Row(TRUE, <<"1">>, <<"5">>, <<>>),
    Line(FALSE, <<>>) }

\* -------------------------------------------------------------------- state
VARIABLES
  op,          \* the operation run on the two snapshot files
  pc,          \* where that operation is: "file1", "file2", "done", "error"
  nread,       \* lines read from the file being parsed
  mem_dict1,   \* records of the earlier file (mem_dict1 / procs1)
  mem_dict2,   \* records of the later file (mem_dict2 / procs2)
  result,      \* what the operation returned
  malformed,   \* an accepted row with an unparsable memory field was read
  arg1,        \* first identifier given to ensure_time_order
  arg2,        \* second identifier
  time1,       \* what the first resolved to
  time2,       \* what the second resolved to
  ordered,     \* what ensure_time_order returned
  snapshots_dir,   \* the entries of the directory collect_memory_data scans
  target_pid,      \* the PID it collects
  snapshot_files,  \* the sorted files, once sorted
  idx,             \* position of the loop over snapshot_files
  cread,           \* lines read from the snapshot at idx
  data,            \* the points collected
  cmd_name,        \* the command last seen
  cpc,             \* "start", "loop", "done", or the exception raised
  contains,        \* positions of the snapshots in which a row of target_pid was read
  cmalformed,      \* positions of the snapshots in which an accepted row with
                   \* an unparsable memory field was read
  fpid,            \* the PID both parsers are asked about in one file
  fpc,             \* "lines" while the file is read, "eof" once both returned
  fread,           \* lines read from that file
  frows,           \* accepted rows of fpid read from it
  mem_dict,        \* the dict of compare_top_mem.parse_top_file, or its ValueError
  tracked          \* what track_pid_mem.parse_top_file returned, Continue
                   \* while it is still looping

diffVars == <<op, pc, nread, mem_dict1, mem_dict2, result, malformed>>
orderVars == <<arg1, arg2, time1, time2, ordered>>
collectVars == <<snapshots_dir, target_pid, snapshot_files, idx, cread, data,
                 cmd_name, cpc, contains, cmalformed>>
parseVars == <<fpid, fpc, fread, frows, mem_dict, tracked>>
vars == <<op, pc, nread, mem_dict1, mem_dict2, result, malformed,
          arg1, arg2, time1, time2, ordered,
          snapshots_dir, target_pid, snapshot_files, idx, cread, data,
          cmd_name, cpc, contains, cmalformed,
          fpid, fpc, fread, frows, mem_dict, tracked>>

Idle == <<>>

DiffIdle ==
  /\ op = Idle /\ pc = Idle /\ nread = 0 /\ mem_dict1 = EmptyDict
  /\ mem_dict2 = EmptyDict /\ result = Idle /\ malformed = FALSE

OrderIdle ==
  arg1 = Idle /\ arg2 = Idle /\ time1 = Idle /\ time2 = Idle /\ ordered = Idle

CollectIdle ==
  /\ snapshots_dir = Idle /\ target_pid = 0 /\ snapshot_files = Idle /\ idx = 0
  /\ cread = 0 /\ data = Idle /\ cmd_name = Idle /\ cpc = Idle
  /\ contains = {} /\ cmalformed = {}

ParseIdle ==
  /\ fpid = 0 /\ fpc = Idle /\ fread = 0 /\ frows = 0
  /\ mem_dict = EmptyDict /\ tracked = Idle

\* ------------------------------------------- compare_top_mem on two files
DiffInit ==
  /\ op \in {"compare_memory", "find_new_processes"}
  /\ pc = "file1"
  /\ nread = 0
  /\ mem_dict1 = EmptyDict
  /\ mem_dict2 = EmptyDict
  /\ result = Idle
  /\ malformed = FALSE

\* an accepted row whose memory field the normalizer rejects
Malformed(line) == ~Skipped(line) /\ IsErr(parse_memory_value(line.parts[6]))

\* the dict of the file being parsed
CurrentDict == IF pc = "file1" THEN mem_dict1 ELSE mem_dict2

\* the next line of the file being parsed; next is what the loop body makes
\* of the dict: the dict afterwards, or the ValueError that ends the operation
ReadLine(line, next) ==
  /\ pc \in {"file1", "file2"}
  /\ nread < MaxRows
  /\ malformed' = (malformed \/ Malformed(line))
  /\ IF IsErr(next)
     THEN pc' = "error" /\ nread' = 0 /\ UNCHANGED <<mem_dict1, mem_dict2>>
     ELSE /\ pc' = pc
          /\ nread' = nread + 1
          /\ mem_dict1' = IF pc = "file1" THEN next ELSE mem_dict1
          /\ mem_dict2' = IF pc = "file2" THEN next ELSE mem_dict2
  /\ UNCHANGED <<op, result>>

ParseTopFileLine ==
  /\ op = "compare_memory"
  /\ \E line \in Lines : ReadLine(line, parse_top_file_line(CurrentDict, line))
  /\ UNCHANGED <<orderVars, collectVars, parseVars>>

GetProcessesLine ==
  /\ op = "find_new_processes"
  /\ \E line \in Lines : ReadLine(line, get_processes_line(CurrentDict, line))
  /\ UNCHANGED <<orderVars, collectVars, parseVars>>

\* the end of the earlier file: its dict is returned and the later file opened
EndOfFile1 ==
  /\ pc = "file1"
  /\ pc' = "file2"
  /\ nread' = 0
  /\ UNCHANGED <<op, mem_dict1, mem_dict2, result, malformed>>
  /\ UNCHANGED <<orderVars, collectVars, parseVars>>

\* the end of the later file: compare_memory builds and sorts its changes
CompareMemory ==
  /\ op = "compare_memory"
  /\ pc = "file2"
  /\ result' = compare_memory(mem_dict1, mem_dict2)
  /\ pc' = "done"
  /\ nread' = 0
  /\ UNCHANGED <<op, mem_dict1, mem_dict2, malformed>>
  /\ UNCHANGED <<orderVars, collectVars, parseVars>>

\* the end of the later file: find_new_processes builds and sorts new_procs
FindNewProcesses ==
  /\ op = "find_new_processes"
  /\ pc = "file2"
  /\ result' = find_new_processes(mem_dict1, mem_dict2)
  /\ pc' = "done"
  /\ nread' = 0
  /\ UNCHANGED <<op, mem_dict1, mem_dict2, malformed>>
  /\ UNCHANGED <<orderVars, collectVars, parseVars>>

Init == DiffInit /\ OrderIdle /\ CollectIdle /\ ParseIdle

Next ==
  \/ ParseTopFileLine
  \/ GetProcessesLine
  \/ EndOfFile1
  \/ CompareMemory
  \/ FindNewProcesses

Spec == Init /\ [][Next]_vars

\* ------------------------------------------------------ the ordering guard
OrderInit ==
  /\ arg1 \in OrderNames
  /\ arg2 \in OrderNames
  /\ time1 = Idle
  /\ time2 = Idle
  /\ ordered = Idle

EnsureTimeOrder ==
  /\ ordered = Idle
  /\ time1' = parse_timestamp_from_filename(arg1)
  /\ time2' = parse_timestamp_from_filename(arg2)
  /\ ordered' = ensure_time_order(arg1, arg2)
  /\ UNCHANGED <<arg1, arg2>>
  /\ UNCHANGED <<diffVars, collectVars, parseVars>>

InitOrder == OrderInit /\ DiffIdle /\ CollectIdle /\ ParseIdle

NextOrder == EnsureTimeOrder

SpecOrder == InitOrder /\ [][NextOrder]_vars

\* ------------------------------------------------ track_pid_mem on a directory
CollectInit ==
  /\ snapshots_dir \in Directories
  /\ target_pid \in {1, 2}
  /\ snapshot_files = Idle
  /\ idx = 0
  /\ cread = 0
  /\ data = <<>>
  /\ cmd_name = None
  /\ cpc = "start"
  /\ contains = {}
  /\ cmalformed = {}

\* the loop over snapshot_files moves to position i, or ends
GoTo(i, files) ==
  /\ idx' = i
  /\ cread' = 0
  /\ cpc' = IF i > Len(files) THEN "done" ELSE "loop"

\* the files are enumerated and sorted
SortSnapshotFiles ==
  /\ cpc = "start"
  /\ LET files == glob(snapshots_dir)
     IN IF SortRaisesTypeError(files)
        THEN /\ cpc' = "TypeError"
             /\ UNCHANGED <<snapshot_files, idx, cread>>
        ELSE /\ snapshot_files' = sorted_snapshot_files(files)
             /\ GoTo(1, sorted_snapshot_files(files))
  /\ UNCHANGED <<snapshots_dir, target_pid, data, cmd_name, contains, cmalformed>>
  /\ UNCHANGED <<diffVars, orderVars, parseVars>>

\* a file whose name gives no timestamp is passed over
SkipUnresolved ==
  /\ cpc = "loop"
  /\ IsNone(SnapshotTime[snapshot_files[idx]])
  /\ GoTo(idx + 1, snapshot_files)
  /\ UNCHANGED <<snapshots_dir, target_pid, snapshot_files, data, cmd_name,
                 contains, cmalformed>>
  /\ UNCHANGED <<diffVars, orderVars, parseVars>>

\* the next line of the snapshot at idx
TrackReadLine ==
  /\ cpc = "loop"
  /\ ~IsNone(SnapshotTime[snapshot_files[idx]])
  /\ cread < MaxRows
  /\ \E line \in TrackLines :
       LET timestamp == SnapshotTime[snapshot_files[idx]]
           process_info == track_parse_top_file_line(line, target_pid)
       IN /\ cmalformed' = IF Malformed(line) THEN cmalformed \cup {idx} ELSE cmalformed
          /\ contains' = IF ~Skipped(line) /\ int(line.parts[1]) = target_pid
                         THEN contains \cup {idx} ELSE contains
          /\ IF process_info = Continue
             THEN /\ cread' = cread + 1
                  /\ UNCHANGED <<idx, cpc, data, cmd_name>>
             ELSE IF IsErr(process_info)
             THEN /\ cpc' = "ValueError"
                  /\ UNCHANGED <<idx, cread, data, cmd_name>>
             ELSE /\ cmd_name' = process_info.cmd
                  /\ data' = Append(data, Point(timestamp, process_info))
                  /\ GoTo(idx + 1, snapshot_files)
  /\ UNCHANGED <<snapshots_dir, target_pid, snapshot_files>>
  /\ UNCHANGED <<diffVars, orderVars, parseVars>>

\* the end of the snapshot at idx: parse_top_file returns None
TrackEndOfFile ==
  /\ cpc = "loop"
  /\ ~IsNone(SnapshotTime[snapshot_files[idx]])
  /\ GoTo(idx + 1, snapshot_files)
  /\ UNCHANGED <<snapshots_dir, target_pid, snapshot_files, data, cmd_name,
                 contains, cmalformed>>
  /\ UNCHANGED <<diffVars, orderVars, parseVars>>

InitCollect == CollectInit /\ DiffIdle /\ OrderIdle /\ ParseIdle

NextCollect ==
  \/ SortSnapshotFiles
  \/ SkipUnresolved
  \/ TrackReadLine
  \/ TrackEndOfFile

SpecCollect == InitCollect /\ [][NextCollect]_vars

\* ------------------- the two parse_top_file of the repository on one file
\* compare_top_mem.parse_top_file(filename) and
\* track_pid_mem.parse_top_file(filename, fpid) read the same lines
ParseInit ==
  /\ fpid \in {1, 2}
  /\ fpc = "lines"
  /\ fread = 0
  /\ frows = 0
  /\ mem_dict = EmptyDict
  /\ tracked = Continue

\* the next line of the file: each parser that has not yet returned or raised
\* runs its loop body on it
ParseFileLine ==
  /\ fpc = "lines"
  /\ fread < MaxRows
  /\ \E line \in Lines :
       /\ mem_dict' = IF IsErr(mem_dict) THEN mem_dict
                      ELSE parse_top_file_line(mem_dict, line)
       /\ tracked' = IF tracked = Continue
                          THEN track_parse_top_file_line(line, fpid)
                          ELSE tracked
       /\ frows' = IF ~Skipped(line) /\ int(line.parts[1]) = fpid
                   THEN frows + 1 ELSE frows
  /\ fread' = fread + 1
  /\ UNCHANGED <<fpid, fpc>>
  /\ UNCHANGED <<diffVars, orderVars, collectVars>>

\* the end of the file: the dict is returned, and None by the tracker's
\* parser when no row of fpid was found
ParseEndOfFile ==
  /\ fpc = "lines"
  /\ fpc' = "eof"
  /\ tracked' = IF tracked = Continue THEN None ELSE tracked
  /\ UNCHANGED <<fpid, fread, frows, mem_dict>>
  /\ UNCHANGED <<diffVars, orderVars, collectVars>>

InitParse == ParseInit /\ DiffIdle /\ OrderIdle /\ CollectIdle

NextParse ==
  \/ ParseFileLine
  \/ ParseEndOfFile

SpecParse == InitParse /\ [][NextParse]_vars

\* ------------------------------------------------------------------- claims
Done(o) == op = o /\ pc = "done"

Changed ==
  {p \in Keys(mem_dict1) \cap Keys(mem_dict2) :
     ~RatEq(mem_dict1.val[p].mem, mem_dict2.val[p].mem)}

NewPids ==
  {p \in Keys(mem_dict2) \ Keys(mem_dict1) : RatLt(Zero, mem_dict2.val[p].mem)}

\* C3: find_new_processes returns exactly the PIDs of the later snapshot
\* that are absent from the earlier one and have memory_kb > 0 there, in
\* descending order of memory_kb.
C3_FindNewProcesses ==
  Done("find_new_processes") =>
    /\ {result[i].pid : i \in 1..Len(result)} = NewPids
    /\ Len(result) = Cardinality(NewPids)
    /\ \A i \in 1..Len(result) :
         /\ RatEq(result[i].mem_kb, mem_dict2.val[result[i].pid].mem)
         /\ result[i].cmd = mem_dict2.val[result[i].pid].cmd
    /\ \A i \in 1..(Len(result) - 1) : RatLe(result[i + 1].mem_kb, result[i].mem_kb)

\* two new processes of different size, listed against their order in the
\* file, and a new PID left out for its memory of 0 or less
C3_Witness ==
  /\ Done("find_new_processes")
  /\ Len(result) = 2
  /\ RatLt(result[2].mem_kb, result[1].mem_kb)
  /\ \E i, j \in 1..Len(mem_dict2.keys) :
       i < j /\ mem_dict2.keys[i] = result[2].pid /\ mem_dict2.keys[j] = result[1].pid
  /\ \E p \in Keys(mem_dict2) \ Keys(mem_dict1) : RatLe(mem_dict2.val[p].mem, Zero)

\* C4: ensure_time_order fails whenever an identifier gives no timestamp;
\* otherwise it returns the two identifiers, the one of the earlier or equal
\* timestamp first, and warns of a swap exactly when the first argument's
\* timestamp is strictly later than the second's.
C4_EnsureTimeOrder ==
  ordered # Idle =>
    IF IsNone(time1) \/ IsNone(time2) THEN IsErr(ordered)
    ELSE /\ ~IsErr(ordered)
         /\ \/ ordered.first = arg1 /\ ordered.second = arg2
            \/ ordered.first = arg2 /\ ordered.second = arg1
         /\ ~TimeLt(parse_timestamp_from_filename(ordered.second),
                    parse_timestamp_from_filename(ordered.first))
         /\ ordered.warned = TimeLt(time2, time1)
         /\ ordered.warned => (ordered.first = arg2 /\ ordered.second = arg1)

\* a later snapshot given first: the pair comes back swapped, with the warning
C4_Witness ==
  /\ ordered # Idle
  /\ ~IsErr(ordered)
  /\ ordered.warned
  /\ ordered.first = arg2
  /\ ordered.first # ordered.second

\* 'top_' + 8 digits + '_' + 4 digits + '.txt'
ExactName(b) ==
  /\ Len(b) = 21
  /\ SubSeq(b, 1, 4) = TopPrefix
  /\ \A i \in 5..12 : b[i] \in Digits
  /\ b[13] = "_"
  /\ \A i \in 14..17 : b[i] \in Digits
  /\ SubSeq(b, 18, 21) = TxtSuffix

\* C7: parse_timestamp_from_filename returns a timestamp only when the base
\* name is exactly 'top_', 8 date digits, '_', 4 time digits and '.txt'.
C7_ExactPatternOnly ==
  ordered # Idle =>
    /\ ~IsNone(time1) => ExactName(PathName(arg1))
    /\ ~IsNone(time2) => ExactName(PathName(arg2))

\* the files of the directory that glob yields all give a timestamp
AllResolve ==
  \A i \in 1..Len(glob(snapshots_dir)) :
    ~IsNone(SnapshotTime[glob(snapshots_dir)[i]])

FileTime(i) == SnapshotTime[snapshot_files[i]]

\* the timestamp a point carries, as a datetime
PointTime(point) ==
  FileTime(CHOOSE i \in 1..Len(snapshot_files) : strftime(FileTime(i)) = point.timestamp)

\* C5: in a directory whose matching names all resolve, collect_memory_data
\* returns one point for each snapshot with a row of the PID and none for
\* the others, in ascending order of timestamp; with no such snapshot the
\* result is empty and no error.  (A call that ends in the ValueError of a
\* memory field returns nothing.)
C5_CollectMemoryData ==
  AllResolve =>
    /\ cpc # "TypeError"
    /\ (contains = {} => cpc # "ValueError")
    /\ cpc = "done" =>
         /\ Len(data) = Cardinality(contains)
         /\ \A i \in 1..Len(snapshot_files) :
              Cardinality({k \in 1..Len(data) : data[k].timestamp = strftime(FileTime(i))})
                = Cardinality({j \in contains : FileTime(j) = FileTime(i)})
         /\ \A k \in 1..Len(data) : data[k].pid = target_pid
         /\ \A k \in 1..(Len(data) - 1) :
              ~TimeLt(PointTime(data[k + 1]), PointTime(data[k]))

\* three snapshots listed out of order, the PID in the earliest and the
\* latest only: two points
C5_Witness ==
  /\ cpc = "done"
  /\ AllResolve
  /\ Len(snapshot_files) = 3
  /\ snapshot_files # glob(snapshots_dir)
  /\ contains = {1, 3}
  /\ Len(data) = 2
  /\ TimeLt(PointTime(data[1]), PointTime(data[2]))

\* C6: an entry of the form top_*.txt whose name gives no timestamp is
\* discarded: the call does not fail for it, and returns the series of the
\* other snapshots.
C6_UnresolvableDiscarded ==
  ~AllResolve =>
    /\ cpc # "TypeError"
    /\ cpc = "done" =>
         /\ Len(data) = Cardinality(contains)
         /\ \A i \in contains : ~IsNone(FileTime(i))

\* C8: a file with an accepted row of unparsable memory field fails to
\* parse, in compare_memory, in find_new_processes and in
\* collect_memory_data, whatever the PID of the row.
C8_MalformedFailsParse ==
  /\ malformed => (pc = "error" /\ result = Idle)
  /\ \A i \in cmalformed : idx = i /\ cpc = "ValueError"

\* C9: the change rate of an entry is change / mem_before * 100 when
\* mem_before > 0, and otherwise the unbounded sentinel with the sign of change.
C9_ChangeRate ==
  Done("compare_memory") =>
    \A i \in 1..Len(result) :
      LET e == result[i]
      IN IF RatLt(Zero, e.mem1)
         THEN /\ "inf" \notin DOMAIN e.change_rate
              /\ RatEq(e.change_rate, RatMulInt(RatDiv(e.change, e.mem1), 100))
         ELSE e.change_rate = (IF RatLt(Zero, e.change) THEN Inf ELSE NegInf)

\* C10: every record a parse stores has pid >= 0 and memory_kb >= 0.
C10_NonNegativeRecords ==
  \A dict \in {mem_dict1, mem_dict2} :
    \A p \in Keys(dict) : p >= 0 /\ RatLe(Zero, dict.val[p].mem)

\* both parsers returned, neither raised
BothReturned == fpc = "eof" /\ ~IsErr(mem_dict) /\ ~IsErr(tracked)

\* C11: for a file and a PID, the record track_pid_mem.parse_top_file
\* returns is the record the dict of compare_top_mem.parse_top_file holds for
\* that PID (None when the dict has no such key), also when the PID is on
\* more than one accepted row of the file.
C11_SameRecord ==
  BothReturned =>
    IF fpid \in Keys(mem_dict)
    THEN /\ ~IsNone(tracked)
         /\ tracked.pid = fpid
         /\ RatEq(tracked.mem, mem_dict.val[fpid].mem)
         /\ tracked.cmd = mem_dict.val[fpid].cmd
    ELSE IsNone(tracked)

====
